---------------------------- MODULE Spec2Model ----------------------------
(***************************************************************************)
(* Mission Log (src/app.py): a FastAPI application over two SQLite tables, *)
(* log_entries and tasks.  The model keeps the two tables as sequences in  *)
(* rowid order, the wall clock (date.today() and datetime.utcnow()), the   *)
(* request handled last with its response, and two history variables: the  *)
(* store as it was before that request, and whether that request repeated  *)
(* a toggle_task.                                                          *)
(*                                                                         *)
(* Dates are day ordinals (date.toordinal()): check_date - timedelta(1) is *)
(* check_date - 1.  A `day` request parameter is a record: absent (None or *)
(* the empty string), a malformed string, or an ISO string of a date.      *)
(* A nullable column holds None (<<>>) or Some(v) (<<v>>).                 *)
(*                                                                         *)
(* src/models.py declares neither log_entries.duration_min nor             *)
(* log_entries.impact; the model follows src/app.py, which writes and      *)
(* reads both on every LogEntry.                                           *)
(***************************************************************************)
EXTENDS Integers, Sequences, FiniteSets, TLC

VARIABLES
    logs,    \* table log_entries, in rowid order
    tasks,   \* table tasks, in rowid order
    today,   \* date.today()
    clock,   \* datetime.utcnow(), in ticks
    resp,    \* the request handled last and its response
    pre,     \* [logs, tasks] as they were before that request
    again    \* that request was toggle_task, on the task id of the toggle_task before it

vars == <<logs, tasks, today, clock, resp, pre, again>>

---------------------------------------------------------------------------
(* Bounds of the model *)

MaxLogs == 2
MaxWeekLogs == 3
MaxTasks == 2
MaxAggLogs == 2
MaxYearOps == 3
MaxAdvance == 1
MaxRun == 366
Day0 == 20
MaxPasses == 400

---------------------------------------------------------------------------
(* Values *)

None == <<>>
Some(v) == <<v>>

\* Python's `x or 0` on a nullable integer
OrZero(x) == IF x = None \/ x[1] = 0 THEN 0 ELSE x[1]

\* Python's `x or "Low"` on a nullable string
OrLow(x) == IF x = None \/ x[1] = "" THEN "Low" ELSE x[1]

\* truthiness of a nullable integer / string
TruthyInt(x) == x # None /\ x[1] # 0
TruthyStr(x) == x # None /\ x[1] # ""

Absent == [kind |-> "absent", day |-> 0]
Malformed == [kind |-> "malformed", day |-> 0]
Iso(d) == [kind |-> "iso", day |-> d]

\* `date.fromisoformat(day) if day else date.today()`; raises ValueError on
\* a malformed string
DayRaises(day) == day.kind = "malformed"
DayOf(day) == IF day.kind = "iso" THEN day.day ELSE today

\* log_date.isoformat()
IsoFormat(d) == Iso(d)

Idle == [op |-> "none"]
Store == [logs |-> logs, tasks |-> tasks]

RECURSIVE SumSeq(_)
SumSeq(s) == IF s = <<>> THEN 0 ELSE Head(s) + SumSeq(Tail(s))

\* [f(x) for x in s]
MapSeq(s, F(_)) == [i \in DOMAIN s |-> F(s[i])]

\* the stable sort behind ORDER BY and sorted(): an element goes after every
\* element that it is not before
SortStable(s, Before(_, _)) ==
    LET RECURSIVE Insert(_, _)
        Insert(x, t) ==
            IF t = <<>> THEN <<x>>
            ELSE IF Before(x, Head(t)) THEN <<x>> \o t
            ELSE <<Head(t)>> \o Insert(x, Tail(t))
        RECURSIVE Sort(_)
        Sort(t) ==
            IF t = <<>> THEN <<>>
            ELSE Insert(t[Len(t)], Sort(SubSeq(t, 1, Len(t) - 1)))
    IN Sort(s)

---------------------------------------------------------------------------
(* models.py and the queries of app.py *)

LogEntry(id, log_date, ts, category, text, outcome, duration_min, impact) ==
    [id |-> id, log_date |-> log_date, ts |-> ts, category |-> category,
     text |-> text, outcome |-> outcome, duration_min |-> duration_min,
     impact |-> impact]

Task(id, log_date, ts, title) ==
    [id |-> id, log_date |-> log_date, ts |-> ts, title |-> title, done |-> FALSE]

\* ORDER BY ts alone, the log_date key forgotten
DateTsAscByTsOnly(a, b) == a.ts < b.ts

TsAsc(a, b) == a.ts < b.ts
DateTsAsc(a, b) == a.log_date < b.log_date \/ (a.log_date = b.log_date /\ a.ts < b.ts)

\* db.query(LogEntry).filter(log_date == d).order_by(ts.asc()).all()
LogsByDayOrdered(d) == SortStable(SelectSeq(logs, LAMBDA l : l.log_date = d), TsAsc)

\* db.query(Task).filter(log_date == d).order_by(ts.asc()).all()
TasksByDayOrdered(d) == SortStable(SelectSeq(tasks, LAMBDA t : t.log_date = d), TsAsc)

\* the logs of a day with ORDER BY ts DESC
LogsByDayNewestFirst(d) ==
    SortStable(SelectSeq(logs, LAMBDA l : l.log_date = d), LAMBDA a, b : a.ts > b.ts)

\* db.query(LogEntry).filter(log_date == d).all(): no ORDER BY, SQLite walks
\* the log_date index, whose entries of one date are in rowid order
LogsByDay(d) == SelectSeq(logs, LAMBDA l : l.log_date = d)

\* db.query(Task).filter(log_date == d).all()
TasksByDay(d) == SelectSeq(tasks, LAMBDA t : t.log_date = d)

\* the range query of export_weekly, ordered by log_date then ts
LogsByRange(start_day, end_day) ==
    SortStable(SelectSeq(logs, LAMBDA l : l.log_date >= start_day /\ l.log_date <= end_day),
               DateTsAsc)

TasksByRange(start_day, end_day) ==
    SelectSeq(tasks, LAMBDA t : t.log_date >= start_day /\ t.log_date <= end_day)

---------------------------------------------------------------------------
(* calculate_streak *)

StreakLimit == 365

\* what the session `db` answers the two queries of the loop from: the dates
\* that have a log, the dates that have a task with done == True
LogDates == {logs[i].log_date : i \in DOMAIN logs}
\* the dates that have a task, done or not: the filter on done forgotten
TaskDatesDoneOrNot == {tasks[i].log_date : i \in DOMAIN tasks}
DoneTaskDates == {tasks[i].log_date : i \in {j \in DOMAIN tasks : tasks[j].done = TRUE}}
Session == [log_dates |-> LogDates, done_task_dates |-> DoneTaskDates]

\* db.query(LogEntry).filter(LogEntry.log_date == check_date).first()
has_log(db, check_date) == check_date \in db.log_dates

\* db.query(Task).filter(Task.log_date == check_date, Task.done == True).first()
has_done_task(db, check_date) == check_date \in db.done_task_dates

\* one pass of the `while True` body over the loop's variables; `checks`
\* counts the passes, `done` is set by either `break`
StreakStep(db, s) ==
    IF s.done THEN s
    ELSE IF has_log(db, s.check_date) \/ has_done_task(db, s.check_date)
    THEN [streak |-> s.streak + 1,
          check_date |-> s.check_date - 1,
          checks |-> s.checks + 1,
          done |-> s.streak + 1 > StreakLimit]
    ELSE [s EXCEPT !.checks = s.checks + 1, !.done = TRUE]

\* n passes of the body, halved so that the evaluation stays shallow
RECURSIVE StreakRun(_, _, _)
StreakRun(db, s, n) ==
    IF n = 0 \/ s.done THEN s
    ELSE IF n = 1 THEN StreakStep(db, s)
    ELSE LET half == StreakRun(db, s, n \div 2)
         IN StreakRun(db, half, n - (n \div 2))

\* the loop from `streak = 0; check_date = date.today()`, cut off after
\* MaxPasses passes
StreakLoop(db) ==
    StreakRun(db, [streak |-> 0, check_date |-> today, checks |-> 0, done |-> FALSE],
              MaxPasses)

calculate_streak(db) == StreakLoop(db).streak

---------------------------------------------------------------------------
(* The aggregation of home and export_weekly *)

\* sum((l.duration_min or 0) for l in ls)
TotalMinutes(ls) == SumSeq(MapSeq(ls, LAMBDA l : OrZero(l.duration_min)))

\* sum((l.duration_min or 0) for l in ls if l.impact == impact)
ImpactMinutes(ls, impact) ==
    TotalMinutes(SelectSeq(ls, LAMBDA l : l.impact = Some(impact)))

\* a dict is the sequence of its <<key, value>> items in insertion order
DictHas(d, k) == \E i \in DOMAIN d : d[i][1] = k
DictGet(d, k, default) ==
    IF DictHas(d, k) THEN d[CHOOSE i \in DOMAIN d : d[i][1] = k][2] ELSE default
DictSet(d, k, v) ==
    IF DictHas(d, k)
    THEN [i \in DOMAIN d |-> IF d[i][1] = k THEN <<k, v>> ELSE d[i]]
    ELSE Append(d, <<k, v>>)

\* by_cat[l.category] = (l.duration_min or 0): the minutes so far dropped
ByCatStepOverwrite(by_cat, l) == DictSet(by_cat, l.category, OrZero(l.duration_min))

\* by_cat[l.category] = by_cat.get(l.category, 0) + (l.duration_min or 0)
ByCatStep(by_cat, l) ==
    DictSet(by_cat, l.category, DictGet(by_cat, l.category, 0) + OrZero(l.duration_min))

RECURSIVE ByCatLoop(_, _)
ByCatLoop(by_cat, ls) ==
    IF ls = <<>> THEN by_cat ELSE ByCatLoop(ByCatStep(by_cat, Head(ls)), Tail(ls))

ByCat(ls) == ByCatLoop(<<>>, ls)

\* sorted(by_cat.items(), key=lambda x: x[1])[::-1]: items of equal minutes
\* come out in the reverse of the dict's order
SortedAscendingReversed(items) ==
    LET up == SortStable(items, LAMBDA a, b : a[2] < b[2])
    IN [i \in DOMAIN up |-> up[Len(up) + 1 - i]]

\* sorted(by_cat.items(), key=lambda x: x[1], reverse=True): stable, so items
\* of equal minutes keep the dict's order
SortedByMinutes(items) == SortStable(items, LAMBDA a, b : a[2] > b[2])

\* sum(1 for t in ts if t.done)
DoneTasks(ts) == Len(SelectSeq(ts, LAMBDA t : t.done))

---------------------------------------------------------------------------
(* The responses *)

Redirect(op, req, log_date) ==
    [op |-> op, req |-> req, status |-> 303, location |-> IsoFormat(log_date)]

\* date.fromisoformat raised ValueError: the request ends in a server error
ServerError(op, req) == [op |-> op, req |-> req, status |-> 500]

HomeBody(log_date) ==
    LET ls == LogsByDayOrdered(log_date)
        ts == TasksByDayOrdered(log_date)
    IN [log_date |-> log_date,
        logs |-> ls,
        tasks |-> ts,
        total_minutes |-> TotalMinutes(ls),
        high_impact_minutes |-> ImpactMinutes(ls, "High"),
        by_cat |-> SortedByMinutes(ByCat(ls)),
        streak |-> calculate_streak(Session),
        done_tasks |-> DoneTasks(ts),
        total_tasks |-> Len(ts)]

CsvHeader ==
    [Type |-> "Type", Timestamp |-> "Timestamp", Category |-> "Category",
     Text |-> "Text", OutcomeStatus |-> "Outcome/Status", Duration |-> "Duration",
     Impact |-> "Impact"]

CsvLogRow(log) ==
    [Type |-> "Log", Timestamp |-> ToString(log.ts), Category |-> log.category,
     Text |-> log.text, OutcomeStatus |-> log.outcome,
     Duration |-> ToString(OrZero(log.duration_min)), Impact |-> OrLow(log.impact)]

CsvStatus(task) == IF task.done THEN "Done" ELSE "Pending"

CsvTaskRow(task) ==
    [Type |-> "Task", Timestamp |-> ToString(task.ts), Category |-> "-",
     Text |-> task.title, OutcomeStatus |-> CsvStatus(task), Duration |-> "-",
     Impact |-> "-"]

CsvBody(log_date) ==
    <<CsvHeader>> \o MapSeq(LogsByDay(log_date), CsvLogRow)
                  \o MapSeq(TasksByDay(log_date), CsvTaskRow)

\* one "- **category** (dur) [impact]: text -- outcome" line; `id` is not
\* printed, it names the row the line was made from
NoteLine(l) ==
    [kind |-> "entry", id |-> l.id, category |-> l.category,
     dur |-> IF TruthyInt(l.duration_min) THEN l.duration_min ELSE None,
     impact_tag |-> IF TruthyStr(l.impact) /\ l.impact # Some("Low") THEN l.impact ELSE None,
     text |-> l.text,
     outcome |-> IF l.outcome # "" THEN Some(l.outcome) ELSE None]

NoteHeading(d) == [kind |-> "heading", day |-> d]

\* the loop over logs with `current`, the day of the last heading
RECURSIVE DailyNotes(_, _, _)
DailyNotes(ls, current, lines) ==
    IF ls = <<>> THEN lines
    ELSE LET l == Head(ls)
         IN IF Some(l.log_date) # current
            THEN DailyNotes(Tail(ls), Some(l.log_date),
                            lines \o <<NoteHeading(l.log_date), NoteLine(l)>>)
            ELSE DailyNotes(Tail(ls), current, Append(lines, NoteLine(l)))

WeeklyBody(end_day) ==
    LET start_day == end_day - 6
        ls == LogsByRange(start_day, end_day)
        ts == TasksByRange(start_day, end_day)
    IN [start_day |-> start_day,
        end_day |-> end_day,
        total_minutes |-> TotalMinutes(ls),
        high_impact_minutes |-> ImpactMinutes(ls, "High"),
        med_impact_minutes |-> ImpactMinutes(ls, "Med"),
        done_tasks |-> DoneTasks(ts),
        total_tasks |-> Len(ts),
        streak |-> calculate_streak(Session),
        categories |-> SortedByMinutes(ByCat(ls)),
        notes |-> DailyNotes(ls, None, <<>>)]

---------------------------------------------------------------------------
(* The handlers *)

\* POST /log
add_log(text, category, outcome, duration_min, impact, day) ==
    LET req == [text |-> text, category |-> category, outcome |-> outcome,
                duration_min |-> duration_min, impact |-> impact, day |-> day]
    IN /\ pre' = Store
       /\ again' = FALSE
       /\ UNCHANGED <<tasks, today>>
       /\ IF DayRaises(day)
          THEN /\ resp' = ServerError("add_log", req)
               /\ UNCHANGED <<logs, clock>>
          ELSE /\ logs' = Append(logs, LogEntry(Len(logs) + 1, DayOf(day), clock, category,
                                                text, outcome, Some(duration_min),
                                                Some(impact)))
               /\ clock' = clock + 1
               /\ resp' = Redirect("add_log", req, DayOf(day))

\* POST /task
add_task(title, day) ==
    LET req == [title |-> title, day |-> day]
    IN /\ pre' = Store
       /\ again' = FALSE
       /\ UNCHANGED <<logs, today>>
       /\ IF DayRaises(day)
          THEN /\ resp' = ServerError("add_task", req)
               /\ UNCHANGED <<tasks, clock>>
          ELSE /\ tasks' = Append(tasks, Task(Len(tasks) + 1, DayOf(day), clock, title))
               /\ clock' = clock + 1
               /\ resp' = Redirect("add_task", req, DayOf(day))

\* t.done = True
MarkDone(t) == [t EXCEPT !.done = TRUE]

\* t.done = not t.done
ToggleDone(t) == [t EXCEPT !.done = ~t.done]

\* POST /task/toggle: the flip is committed before `day` is parsed
toggle_task(task_id, day) ==
    LET req == [task_id |-> task_id, day |-> day]
    IN /\ pre' = Store
       /\ again' = (resp.op = "toggle_task" /\ resp.req.task_id = task_id)
       /\ UNCHANGED <<logs, today, clock>>
       /\ tasks' = [i \in DOMAIN tasks |->
                       IF tasks[i].id = task_id THEN ToggleDone(tasks[i]) ELSE tasks[i]]
       /\ resp' = IF DayRaises(day)
                  THEN ServerError("toggle_task", req)
                  ELSE Redirect("toggle_task", req, DayOf(day))

ReadOnly(op, day, body) ==
    /\ pre' = Store
    /\ again' = FALSE
    /\ UNCHANGED <<logs, tasks, today, clock>>
    /\ resp' = IF DayRaises(day)
               THEN ServerError(op, [day |-> day])
               ELSE [op |-> op, req |-> [day |-> day], status |-> 200, body |-> body]

\* GET /
home(day) == ReadOnly("home", day, HomeBody(DayOf(day)))

\* GET /export
export_csv(day) == ReadOnly("export_csv", day, CsvBody(DayOf(day)))

\* GET /export/weekly
export_weekly(day) == ReadOnly("export_weekly", day, WeeklyBody(DayOf(day)))

---------------------------------------------------------------------------
(* The requests, drawn from the sets each specification gives, and the     *)
(* passing of time.  `room` keeps the tables within the model's bounds.    *)

AddLog(room, days, categories, durations, impacts) ==
    /\ room
    /\ \E day \in days, category \in categories, duration_min \in durations,
          impact \in impacts :
          add_log("note", category, "", duration_min, impact, day)

AddTask(room, days) ==
    /\ room
    /\ \E day \in days : add_task("todo", day)

ToggleTask(ids, days) == \E task_id \in ids, day \in days : toggle_task(task_id, day)

Home(days) == \E day \in days : home(day)

ExportCsv(days) == \E day \in days : export_csv(day)

ExportWeekly(days) == \E day \in days : export_weekly(day)

\* midnight passes between two requests; the response shown is gone
AdvanceDay ==
    /\ today < Day0 + MaxAdvance
    /\ today' = today + 1
    /\ resp' = Idle
    /\ pre' = Store
    /\ again' = FALSE
    /\ UNCHANGED <<logs, tasks, clock>>

---------------------------------------------------------------------------
(* Spec: a fresh database; logs and tasks of two days, toggles, the CSV    *)

TheDays == {Absent, Malformed, Iso(Day0 - 1)}
TaskIds == 1 .. (MaxTasks + 1)

Init ==
    /\ logs = <<>>
    /\ tasks = <<>>
    /\ today = Day0
    /\ clock = 1
    /\ resp = Idle
    /\ pre = [logs |-> <<>>, tasks |-> <<>>]
    /\ again = FALSE

Next ==
    \/ AddLog(Len(logs) < MaxLogs, TheDays, {"General"}, {0}, {"Low"})
    \/ AddTask(Len(tasks) < MaxTasks, TheDays)
    \/ ToggleTask(TaskIds, {Absent, Malformed})
    \/ ExportCsv({Absent, Iso(Day0 - 1)})

Spec == Init /\ [][Next]_vars

---------------------------------------------------------------------------
(* SpecWeekly: a fresh database; logs of three days, one of them more than *)
(* a week ago, and the weekly report                                       *)

WeekDays == {Absent, Iso(Day0 - 1), Iso(Day0 - 7)}

NextWeekly ==
    \/ AddLog(Len(logs) < MaxWeekLogs, WeekDays, {"General"}, {0, 10}, {"Low", "High"})
    \/ ExportWeekly({Absent, Malformed, Iso(Day0 - 1)})

SpecWeekly == Init /\ [][NextWeekly]_vars

---------------------------------------------------------------------------
(* SpecAgg: a database that holds one row written before the columns       *)
(* duration_min and impact existed (both NULL); logs that differ in        *)
(* category, duration and impact                                           *)

AggDays == {Absent, Iso(Day0 - 1)}
AggCategories == {"Code", "General"}
AggDurations == {-5, 0, 10}
AggImpacts == {"High", "Med", "Low"}

LegacyRow == LogEntry(1, Day0, 0, "General", "note", "", None, None)

InitAgg ==
    /\ logs = <<LegacyRow>>
    /\ tasks = <<>>
    /\ today = Day0
    /\ clock = 1
    /\ resp = Idle
    /\ pre = [logs |-> logs, tasks |-> tasks]
    /\ again = FALSE

NextAgg ==
    \/ AddLog(clock <= MaxAggLogs, AggDays, AggCategories, AggDurations, AggImpacts)
    \/ Home(AggDays)
    \/ ExportWeekly(AggDays)

SpecAgg == InitAgg /\ [][NextAgg]_vars

---------------------------------------------------------------------------
(* SpecYear: a database that is empty or holds one log a day for the last  *)
(* `run` days, today included; midnight may pass                           *)

YearRuns == {0, MaxRun - 1, MaxRun}

RunRow(run, i) ==
    LogEntry(i, Day0 - run + i, i - run, "General", "note", "", Some(0), Some("Low"))

InitYear ==
    /\ \E run \in YearRuns : logs = [i \in 1 .. run |-> RunRow(run, i)]
    /\ tasks = <<>>
    /\ today = Day0
    /\ clock = 1
    /\ resp = Idle
    /\ pre = [logs |-> logs, tasks |-> tasks]
    /\ again = FALSE

NextYear ==
    \/ AddLog(clock <= MaxYearOps, {Absent, Iso(Day0 - 3)}, {"General"}, {0}, {"Low"})
    \/ AddTask(clock <= MaxYearOps, {Iso(Day0 - 1)})
    \/ ToggleTask({1}, {Absent})
    \/ Home({Absent})
    \/ AdvanceDay

SpecYear == InitYear /\ [][NextYear]_vars

---------------------------------------------------------------------------
(* What the claims speak of, stated from the two tables *)

HomeShown == resp.op = "home" /\ resp.status = 200
CsvShown == resp.op = "export_csv" /\ resp.status = 200
WeeklyShown == resp.op = "export_weekly" /\ resp.status = 200

\* the day a shown page or export is about
AskedDay == IF resp.req.day.kind = "iso" THEN resp.req.day.day ELSE today

\* the rows of a day, of a span of days
LogsOn(d) == {i \in DOMAIN logs : logs[i].log_date = d}
TasksOn(d) == {i \in DOMAIN tasks : tasks[i].log_date = d}
LogsIn(a, b) == {i \in DOMAIN logs : a <= logs[i].log_date /\ logs[i].log_date <= b}

\* the k-th smallest member of a set of row numbers
Nth(S, k) == CHOOSE x \in S : Cardinality({y \in S : y < x}) = k - 1

Minutes(l) == IF l.duration_min = None THEN 0 ELSE l.duration_min[1]

RECURSIVE SumMinutes(_)
SumMinutes(S) ==
    IF S = {} THEN 0
    ELSE LET i == CHOOSE j \in S : TRUE
         IN Minutes(logs[i]) + SumMinutes(S \ {i})

RECURSIVE SumItems(_, _)
SumItems(items, P) ==
    IF P = {} THEN 0
    ELSE LET k == CHOOSE j \in P : TRUE
         IN items[k][2] + SumItems(items, P \ {k})

TaskExists(ts, id) == \E i \in DOMAIN ts : ts[i].id = id

\* the days that qualify: a log, or a task whose done flag is set now
ActiveDays ==
    {logs[i].log_date : i \in DOMAIN logs}
        \cup {tasks[i].log_date : i \in {j \in DOMAIN tasks : tasks[j].done}}

\* the number of consecutive qualifying days counted back from today: the
\* distance to the first day that does not qualify
RunLength ==
    LET gaps == {k \in 0 .. Cardinality(ActiveDays) : (today - k) \notin ActiveDays}
    IN CHOOSE k \in gaps : \A m \in gaps : k <= m

---------------------------------------------------------------------------
(* C1, C2: calculate_streak *)

\* C1 as stated: the streak shown by home is the number of consecutive
\* qualifying days counted back from today, whatever that number is.
C1_StreakIsRunLength == HomeShown => resp.body.streak = RunLength

\* C1 amended: the streak shown by home is that number when it is at most
\* 365, and 366 when it is larger.
C1_StreakIsCappedRunLength ==
    HomeShown => resp.body.streak = (IF RunLength <= 365 THEN RunLength ELSE 366)

\* today and the day before qualify (the day before through a done task
\* alone), the day before that does not, the next one does: the streak is 2
C1_Witness ==
    /\ HomeShown
    /\ today \in ActiveDays
    /\ (today - 1) \in ActiveDays
    /\ LogsOn(today - 1) = {}
    /\ (today - 2) \notin ActiveDays
    /\ (today - 3) \in ActiveDays
    /\ resp.body.streak = 2

\* C2: calculate_streak checks at most 365 days and returns a streak
\* between 0 and 365.
C2_StreakWithin365 ==
    HomeShown => (StreakLoop(Session).checks <= 365 /\ resp.body.streak \in 0 .. 365)

---------------------------------------------------------------------------
(* C3, C10: toggle_task and the malformed day *)

\* C3: a toggle_task that follows a toggle_task of the same existing task
\* leaves both tables as they were before the first; a toggle_task of an id
\* no task has leaves both tables as they are and, its day being well
\* formed, answers with the redirect.
C3_ToggleTwiceRestores ==
    [][/\ (/\ resp.op = "toggle_task"
           /\ resp'.op = "toggle_task"
           /\ resp'.req.task_id = resp.req.task_id
           /\ TaskExists(pre.tasks, resp.req.task_id))
          => (tasks' = pre.tasks /\ logs' = pre.logs)
       /\ (resp'.op = "toggle_task" /\ ~TaskExists(tasks, resp'.req.task_id))
          => /\ tasks' = tasks
             /\ logs' = logs
             /\ (resp'.req.day.kind # "malformed" => resp'.status = 303)]_vars

\* the second of two toggles of one task, beside another task and a log
C3_Witness ==
    /\ again
    /\ resp.op = "toggle_task"
    /\ TaskExists(tasks, resp.req.task_id)
    /\ Len(tasks) >= 2
    /\ Len(logs) >= 1

\* C10: a write request with a malformed day ends in an error and leaves
\* both tables as they were.
C10_MalformedDayLeavesStore ==
    (resp.op \in {"add_log", "add_task", "toggle_task"} /\ resp.req.day.kind = "malformed")
        => (resp.status = 500 /\ logs = pre.logs /\ tasks = pre.tasks)

---------------------------------------------------------------------------
(* C4 - C7: the aggregation *)

CategoriesInOrder(items, S, Earlier(_, _)) ==
    LET First(c) == CHOOSE i \in S :
                        /\ logs[i].category = c
                        /\ \A j \in S : logs[j].category = c =>
                                            (j = i \/ Earlier(logs[i], logs[j]))
    IN /\ {items[k][1] : k \in DOMAIN items} = {logs[i].category : i \in S}
       /\ Len(items) = Cardinality({logs[i].category : i \in S})
       /\ \A k \in DOMAIN items :
             items[k][2] = SumMinutes({i \in S : logs[i].category = items[k][1]})
       /\ \A k, m \in DOMAIN items :
             k < m => \/ items[k][2] > items[m][2]
                      \/ /\ items[k][2] = items[m][2]
                         /\ Earlier(logs[First(items[k][1])], logs[First(items[m][1])])

---------------------------------------------------------------------------
(* C8, C9: the exports *)

=============================================================================
